---- MODULE Spec2Model ----
(***************************************************************************)
(* Model of extensions/amp-smartlinks/0.1/linkmate.js (class Linkmate).    *)
(*                                                                         *)
(* Strings are modelled as sequences of segments, so that the suffix tests *)
(* /#donotlink$/ and /#locklink$/ and the template string of the shop-link *)
(* are computed, not assumed.  JavaScript null / undefined / array values  *)
(* are tagged records, so that null, undefined and the empty array stay    *)
(* three different values.                                                 *)
(***************************************************************************)
EXTENDS Integers, Sequences, FiniteSets, TLC

VARIABLES
  linkmateResponse_,       \* this.linkmateResponse_
  anchorList_,             \* this.anchorList_
  requestExclusiveLinks_,  \* this.requestExclusiveLinks_
  pending,                 \* unresolved postToLinkmate_ promises, in issue order
  lastStep,                \* what the last step returned or settled
  completed                \* history: the last request answered with smart links,
                           \* and whether a malformed body was ever received

vars == <<linkmateResponse_, anchorList_, requestExclusiveLinks_, pending, lastStep,
          completed>>

----------------------------------------------------------------------------
(* Bounds *)

\* longest link, in segments
MaxSegs == 2
\* longest anchor list given to buildLinksPayload_ / mapLinks_ on their own
MaxAnchors == 2
\* longest smart_links array given to mapLinks_ on its own
MaxLinks == 2
\* longest anchor list passed to runLinkmate
MaxCallAnchors == 1
\* longest smart_links array in an API response
MaxRespLinks == 1
\* most requests in flight at once
MaxInFlight == 2

SeqsUpTo(S, n) == UNION {[1..k -> S] : k \in 0..n}

----------------------------------------------------------------------------
(* JavaScript values *)

Null == [tag |-> "null", v |-> <<>>]

Undefined == [tag |-> "undefined", v |-> <<>>]

Arr(s) == [tag |-> "array", v |-> s]

\* a pending promise, as held by a TwoStepsResponse
Promise == [tag |-> "promise", v |-> <<>>]

\* ToBoolean of a value that is null, undefined or an array
Truthy(x) == x.tag = "array"

----------------------------------------------------------------------------
(* Links, anchors, smart links *)

DONOTLINK == <<"#donotlink">>

LOCKLINK == <<"#locklink">>

\* the test without its end anchor: RegExp suffix .test(link)
EndsWithUnanchored(link, suffix) ==
  \E k \in 1..Len(link) :
     k + Len(suffix) - 1 <= Len(link) /\ SubSeq(link, k, k + Len(suffix) - 1) = suffix

\* RegExp suffix$ .test(link)
EndsWith(link, suffix) ==
  /\ Len(link) >= Len(suffix)
  /\ SubSeq(link, Len(link) - Len(suffix) + 1, Len(link)) = suffix

Segments == {"http://a.com", "#donotlink", "#locklink"}

Links == UNION {[1..k -> Segments] : k \in 1..MaxSegs}

\* an anchor is an object with identity (id) and one property, the link
Anchor(i, link) == [id |-> i, href |-> link]

\* anchors of the payload builder runs: every link
PayloadAnchors == {Anchor(1, l) : l \in Links}

\* anchors of the mapping runs: two distinct elements with the same link,
\* one with another link
MapAnchors == {Anchor(1, <<"http://a.com">>), Anchor(2, <<"http://a.com">>),
               Anchor(3, <<"http://b.com">>)}

\* the anchors of the page of the reconcile runs, in document order: two
\* distinct elements with the same link
Page == <<Anchor(1, <<"http://a.com">>), Anchor(2, <<"http://a.com">>)>>

\* the k-th smallest member of a set of positions
Pick(I, k) == CHOOSE j \in I : Cardinality({m \in I : m < j}) = k - 1

\* the lists of at most n anchors of the page, in document order
SubLists(page, n) ==
  {[k \in 1..Cardinality(I) |-> page[Pick(I, k)]] :
     I \in {J \in SUBSET (1..Len(page)) : Cardinality(J) <= n}}

SmartLink(u, a) == [url |-> u, auction_id |-> a]

SmartLinks == {SmartLink(<<"http://a.com">>, "X1"),
               SmartLink(<<"http://b.com">>, "X2"),
               SmartLink(<<"http://a.com">>, "X3")}

RespSmartLinks == {SmartLink(<<"http://a.com">>, "X1"),
                   SmartLink(<<"http://b.com">>, "X2")}

----------------------------------------------------------------------------
(* Collaborators *)

RECURSIVE hrefsEqual(_, _)
hrefsEqual(a, b) ==
  IF a = <<>> THEN TRUE
  ELSE Head(a).href = Head(b).href /\ hrefsEqual(Tail(a), Tail(b))

\* deepEquals of two arrays of anchors: same length, and element by element
\* the same properties; object identity plays no part
deepEquals(a, b) ==
  IF Len(a) # Len(b) THEN FALSE ELSE hrefsEqual(a, b)

\* new TwoStepsResponse(syncResponse, asyncResponse)
TwoStepsResponse(op, anchorList, syncResponse, asyncResponse) ==
  [op |-> op, anchorList |-> anchorList, syncResponse |-> syncResponse,
   asyncResponse |-> asyncResponse, smart_links |-> Null, payload |-> Null,
   overtaken |-> FALSE]

----------------------------------------------------------------------------
(* Linkmate *)

\* `https://shop-links.co/${smartLink['auction_id']}/?amp=true`
shopLink(smartLink) ==
  Arr(<<"https://shop-links.co/", smartLink.auction_id, "/?amp=true">>)

\* the comparison of the link with the smart link's url left out
mapAnchorUnconditional(smartLink, anchor) ==
  [anchor |-> anchor, replacementUrl |-> shopLink(smartLink)]

mapAnchor(smartLink, anchor) ==
  [anchor |-> anchor,
   replacementUrl |-> IF anchor.href = smartLink.url
                      THEN shopLink(smartLink) ELSE Null]

\* Array.prototype.flat, one level
RECURSIVE flat(_)
flat(rows) == IF rows = <<>> THEN <<>> ELSE Head(rows) \o flat(Tail(rows))

\* the loops exchanged: anchors outer, smart links inner
mapLinksAnchorsOuter ==
  LET mappedLinks ==
        [j \in 1..Len(anchorList_.v) |->
          [i \in 1..Len(linkmateResponse_.v) |->
            mapAnchor(linkmateResponse_.v[i], anchorList_.v[j])]]
  IN flat(mappedLinks)

mapLinks_ ==
  LET mappedLinks ==
        [i \in 1..Len(linkmateResponse_.v) |->
          [j \in 1..Len(anchorList_.v) |->
            mapAnchor(linkmateResponse_.v[i], anchorList_.v[j])]]
  IN flat(mappedLinks)

\* the exclusive-links option ignored
RECURSIVE buildLinksPayloadNoOption(_)
buildLinksPayloadNoOption(anchorList) ==
  IF anchorList = <<>> THEN <<>>
  ELSE LET link == Head(anchorList).href
           exclusive == EndsWith(link, LOCKLINK)
           linkObj == [raw_url |-> link, exclusive_match_requested |-> exclusive]
       IN (IF ~EndsWith(link, DONOTLINK) THEN <<linkObj>> ELSE <<>>)
            \o buildLinksPayloadNoOption(Tail(anchorList))

RECURSIVE buildLinksPayload_(_)
buildLinksPayload_(anchorList) ==
  IF anchorList = <<>> THEN <<>>
  ELSE LET link == Head(anchorList).href
           exclusive == requestExclusiveLinks_ \/ EndsWith(link, LOCKLINK)
           linkObj == [raw_url |-> link, exclusive_match_requested |-> exclusive]
       IN (IF ~EndsWith(link, DONOTLINK) THEN <<linkObj>> ELSE <<>>)
            \o buildLinksPayload_(Tail(anchorList))

getEditInfo_ == [name |-> Null, url |-> "https://publisher.example/article"]

\* the request postToLinkmate_ hands to xhr.fetchJson
postToLinkmate_(anchorList) ==
  [anchorList |-> anchorList,
   body |-> [article |-> getEditInfo_, links |-> buildLinksPayload_(anchorList)],
   overtaken |-> FALSE]

\* the lists compared by identity instead of deepEquals
anchorListChangedByIdentity(anchorList) ==
  Truthy(anchorList_) /\ anchorList_.v # anchorList

\* the anchor list has changed since the last API call
anchorListChanged(anchorList) ==
  Truthy(anchorList_) /\ ~deepEquals(anchorList_.v, anchorList)

\* the synchronous mapping computed whenever a response is cached
needsSyncAlways(anchorList) ==
  Truthy(linkmateResponse_)

needsSync(anchorList) ==
  Truthy(linkmateResponse_) /\ anchorListChanged(anchorList)

\* the two conditions joined by && instead of ||
needsRequestBoth(anchorList) ==
  ~Truthy(linkmateResponse_) /\ anchorListChanged(anchorList)

\* the comparison with the remembered list left out
needsRequestWithoutEquals(anchorList) ==
  ~Truthy(linkmateResponse_) \/ Truthy(anchorList_)

needsRequest(anchorList) ==
  ~Truthy(linkmateResponse_) \/ anchorListChanged(anchorList)

\* no request issued while another is in flight
runLinkmateSingleFlight(anchorList) ==
  LET syncMappedLinks == IF needsSync(anchorList) THEN Arr(mapLinks_) ELSE Null
  IN IF needsRequest(anchorList) /\ pending = <<>>
     THEN /\ pending' = Append(pending, postToLinkmate_(anchorList))
          /\ lastStep' = TwoStepsResponse("run", anchorList, syncMappedLinks, Promise)
          /\ UNCHANGED <<linkmateResponse_, anchorList_, requestExclusiveLinks_, completed>>
     ELSE /\ anchorList_' = IF needsRequest(anchorList) THEN anchorList_
                            ELSE Arr(anchorList)
          /\ lastStep' = TwoStepsResponse("run", anchorList, syncMappedLinks, Null)
          /\ UNCHANGED <<linkmateResponse_, requestExclusiveLinks_, pending, completed>>

\* the new anchor list remembered at call time, before the response arrives
runLinkmateRemembersAtCall(anchorList) ==
  LET syncMappedLinks == IF needsSync(anchorList) THEN Arr(mapLinks_) ELSE Null
  IN IF needsRequest(anchorList)
     THEN /\ Len(pending) < MaxInFlight
          /\ pending' = Append(pending, postToLinkmate_(anchorList))
          /\ lastStep' = TwoStepsResponse("run", anchorList, syncMappedLinks, Promise)
          /\ anchorList_' = Arr(anchorList)
          /\ UNCHANGED <<linkmateResponse_, requestExclusiveLinks_, completed>>
     ELSE /\ anchorList_' = Arr(anchorList)
          /\ lastStep' = TwoStepsResponse("run", anchorList, syncMappedLinks, Null)
          /\ UNCHANGED <<linkmateResponse_, requestExclusiveLinks_, pending, completed>>

runLinkmate(anchorList) ==
  LET syncMappedLinks == IF needsSync(anchorList) THEN Arr(mapLinks_) ELSE Null
  IN IF needsRequest(anchorList)
     THEN /\ Len(pending) < MaxInFlight
          /\ pending' = Append(pending, postToLinkmate_(anchorList))
          /\ lastStep' = TwoStepsResponse("run", anchorList, syncMappedLinks, Promise)
          /\ UNCHANGED <<linkmateResponse_, anchorList_, requestExclusiveLinks_, completed>>
     ELSE /\ anchorList_' = Arr(anchorList)
          /\ lastStep' = TwoStepsResponse("run", anchorList, syncMappedLinks, Null)
          /\ UNCHANGED <<linkmateResponse_, requestExclusiveLinks_, pending, completed>>

\* pending without its i-th request; when that request updated the state,
\* the older requests still in flight are marked overtaken
settle(i, updated) ==
  [j \in 1..(Len(pending) - 1) |->
     IF j < i THEN [pending[j] EXCEPT !.overtaken = @ \/ updated]
     ELSE pending[j + 1]]

settled(op, i, value, smartLinks) ==
  [op |-> op, anchorList |-> pending[i].anchorList, syncResponse |-> Null,
   asyncResponse |-> value, smart_links |-> smartLinks, payload |-> Null,
   overtaken |-> pending[i].overtaken]

\* a failure that resets the cache
fetchRejectsAndClears(i) ==
  /\ pending' = settle(i, FALSE)
  /\ lastStep' = settled("rejected", i, Null, Null)
  /\ linkmateResponse_' = Null
  /\ anchorList_' = Null
  /\ UNCHANGED <<requestExclusiveLinks_, completed>>

\* xhr.fetchJson(...) or res.json() rejects: the then-callback does not run
fetchRejects(i) ==
  /\ pending' = settle(i, FALSE)
  /\ lastStep' = settled("rejected", i, Null, Null)
  /\ UNCHANGED <<linkmateResponse_, anchorList_, requestExclusiveLinks_, completed>>

\* the parsed bodies the API can answer with
\* "The API response returns unique links"
SmartLinkArrays ==
  {Arr(s) : s \in {t \in SeqsUpTo(RespSmartLinks, MaxRespLinks) :
                     \A i, j \in DOMAIN t : i # j => t[i] # t[j]}}

Bodies ==
  {[data |-> Undefined], [data |-> Arr(<<>>)]}
    \cup {[data |-> Arr(<<[smart_links |-> x]>>)] :
            x \in {Undefined} \cup SmartLinkArrays}

\* res.data[0] can be read
hasData0(res) == Truthy(res.data) /\ Len(res.data.v) > 0

\* nothing received yet
NoneCompleted == [smart_links |-> Null, anchorList |-> <<>>, malformed |-> FALSE]

\* the history after the body res was received for the i-th request
received(i, res) ==
  IF completed.malformed \/ ~hasData0(res)
  THEN [NoneCompleted EXCEPT !.malformed = TRUE]
  ELSE IF ~Truthy(res.data.v[1].smart_links)
  THEN [NoneCompleted EXCEPT !.malformed = TRUE]
  ELSE [smart_links |-> res.data.v[1].smart_links,
        anchorList |-> pending[i].anchorList, malformed |-> FALSE]

\* a sequencing token: the response of an overtaken request is discarded
fetchResolvesLatestOnly(i, res) ==
  IF ~(Truthy(res.data) /\ Len(res.data.v) > 0)
  THEN /\ pending' = settle(i, FALSE)
       /\ lastStep' = settled("rejected", i, Null, Null)
       /\ completed' = received(i, res)
       /\ UNCHANGED <<linkmateResponse_, anchorList_, requestExclusiveLinks_>>
  ELSE IF pending[i].overtaken /\ Truthy(res.data.v[1].smart_links)
  THEN /\ pending' = settle(i, FALSE)
       /\ lastStep' = settled("resolved", i, Arr(mapLinks_), res.data.v[1].smart_links)
       /\ completed' = received(i, res)
       /\ UNCHANGED <<linkmateResponse_, anchorList_, requestExclusiveLinks_>>
  ELSE /\ linkmateResponse_' = res.data.v[1].smart_links
       /\ anchorList_' = Arr(pending[i].anchorList)
       /\ pending' = settle(i, TRUE)
       /\ lastStep' =
            IF Truthy(linkmateResponse_')
            THEN settled("resolved", i, Arr(mapLinks_'), res.data.v[1].smart_links)
            ELSE settled("rejected", i, Null, res.data.v[1].smart_links)
       /\ completed' = received(i, res)
       /\ UNCHANGED requestExclusiveLinks_

\* the mapping computed before the two assignments instead of after them
fetchResolvesMapsFirst(i, res) ==
  IF ~(Truthy(res.data) /\ Len(res.data.v) > 0)
  THEN /\ pending' = settle(i, FALSE)
       /\ lastStep' = settled("rejected", i, Null, Null)
       /\ completed' = received(i, res)
       /\ UNCHANGED <<linkmateResponse_, anchorList_, requestExclusiveLinks_>>
  ELSE /\ linkmateResponse_' = res.data.v[1].smart_links
       /\ anchorList_' = Arr(pending[i].anchorList)
       /\ pending' = settle(i, TRUE)
       /\ lastStep' =
            IF Truthy(linkmateResponse_')
            THEN settled("resolved", i, Arr(mapLinks_), res.data.v[1].smart_links)
            ELSE settled("rejected", i, Null, res.data.v[1].smart_links)
       /\ completed' = received(i, res)
       /\ UNCHANGED requestExclusiveLinks_

\* the anchor list assigned only when none is remembered yet
fetchResolvesKeepsAnchors(i, res) ==
  IF ~(Truthy(res.data) /\ Len(res.data.v) > 0)
  THEN /\ pending' = settle(i, FALSE)
       /\ lastStep' = settled("rejected", i, Null, Null)
       /\ completed' = received(i, res)
       /\ UNCHANGED <<linkmateResponse_, anchorList_, requestExclusiveLinks_>>
  ELSE /\ linkmateResponse_' = res.data.v[1].smart_links
       /\ anchorList_' = IF Truthy(anchorList_) THEN anchorList_
                         ELSE Arr(pending[i].anchorList)
       /\ pending' = settle(i, TRUE)
       /\ lastStep' =
            IF Truthy(linkmateResponse_')
            THEN settled("resolved", i, Arr(mapLinks_'), res.data.v[1].smart_links)
            ELSE settled("rejected", i, Null, res.data.v[1].smart_links)
       /\ completed' = received(i, res)
       /\ UNCHANGED requestExclusiveLinks_

\* res => { this.linkmateResponse_ = res.data[0]['smart_links'];
\*          this.anchorList_ = anchorList; return this.mapLinks_(); }
fetchResolves(i, res) ==
  IF ~hasData0(res)
  THEN \* TypeError on res.data[0], before any assignment
       /\ pending' = settle(i, FALSE)
       /\ lastStep' = settled("rejected", i, Null, Null)
       /\ completed' = received(i, res)
       /\ UNCHANGED <<linkmateResponse_, anchorList_, requestExclusiveLinks_>>
  ELSE /\ linkmateResponse_' = res.data.v[1].smart_links
       /\ anchorList_' = Arr(pending[i].anchorList)
       /\ pending' = settle(i, TRUE)
       /\ lastStep' =
            IF Truthy(linkmateResponse_')
            THEN settled("resolved", i, Arr(mapLinks_'), res.data.v[1].smart_links)
            ELSE \* TypeError on undefined.map in mapLinks_
                 settled("rejected", i, Null, res.data.v[1].smart_links)
       /\ completed' = received(i, res)
       /\ UNCHANGED requestExclusiveLinks_

CallLists == SubLists(Page, MaxCallAnchors)

Start == TwoStepsResponse("init", <<>>, Null, Null)

\* constructor
Init ==
  /\ linkmateResponse_ = Null
  /\ anchorList_ = Null
  /\ requestExclusiveLinks_ \in BOOLEAN
  /\ pending = <<>>
  /\ lastStep = Start
  /\ completed = NoneCompleted

Next ==
  \/ \E anchorList \in CallLists : runLinkmate(anchorList)
  \/ \E i \in 1..Len(pending) : fetchRejects(i)
  \/ \E i \in 1..Len(pending) : \E res \in Bodies : fetchResolves(i, res)

Spec == Init /\ [][Next]_vars

----------------------------------------------------------------------------
(* The caller settles on one anchor list and every request is answered with
   smart links.  The runs start in any state the calls before that point can
   have left: nothing cached or the pair of a completed request cached, and
   requests in flight for any lists. *)

\* the list the caller keeps passing
FixedList == <<Page[1]>>

\* the bodies with smart links
GoodBodies == {[data |-> Arr(<<[smart_links |-> x]>>)] : x \in SmartLinkArrays}

InitSettle ==
  /\ requestExclusiveLinks_ \in BOOLEAN
  /\ \/ /\ linkmateResponse_ = Null
        /\ anchorList_ = Null
        /\ completed = NoneCompleted
     \/ \E x \in SmartLinkArrays : \E a \in CallLists :
          /\ linkmateResponse_ = x
          /\ anchorList_ = Arr(a)
          /\ completed = [smart_links |-> x, anchorList |-> a, malformed |-> FALSE]
  /\ pending \in {[k \in DOMAIN q |-> postToLinkmate_(q[k])] :
                    q \in SeqsUpTo(CallLists, MaxInFlight)}
  /\ lastStep = Start

callFixed == runLinkmate(FixedList)

answer(i) ==
  /\ i <= Len(pending)
  /\ \E res \in GoodBodies : fetchResolves(i, res)

NextSettle ==
  \/ callFixed
  \/ \E i \in 1..MaxInFlight : answer(i)

\* the caller keeps calling, and every request in flight is answered
SpecSettle ==
  /\ InitSettle
  /\ [][NextSettle]_vars
  /\ WF_vars(callFixed)
  /\ \A i \in 1..MaxInFlight : WF_vars(answer(i))

----------------------------------------------------------------------------
(* mapLinks_ on its own: any cached response against any anchor list *)

InitMapLinks ==
  /\ linkmateResponse_ \in {Arr(s) : s \in SeqsUpTo(SmartLinks, MaxLinks)}
  /\ anchorList_ \in {Arr(a) : a \in SeqsUpTo(MapAnchors, MaxAnchors)}
  /\ requestExclusiveLinks_ = FALSE
  /\ pending = <<>>
  /\ lastStep = Start
  /\ completed = NoneCompleted

callMapLinks ==
  /\ lastStep = Start
  /\ lastStep' = [Start EXCEPT !.op = "map", !.anchorList = anchorList_.v,
                               !.syncResponse = Arr(mapLinks_)]
  /\ UNCHANGED <<linkmateResponse_, anchorList_, requestExclusiveLinks_, pending, completed>>

NextMapLinks == callMapLinks

SpecMapLinks == InitMapLinks /\ [][NextMapLinks]_vars

----------------------------------------------------------------------------
(* buildLinksPayload_ on its own: any anchor list, either configuration *)

PayloadLists == SeqsUpTo(PayloadAnchors, MaxAnchors)

callBuildLinksPayload(anchorList) ==
  /\ lastStep' = [Start EXCEPT !.op = "payload", !.anchorList = anchorList,
                               !.payload = Arr(buildLinksPayload_(anchorList))]
  /\ UNCHANGED <<linkmateResponse_, anchorList_, requestExclusiveLinks_, pending, completed>>

NextPayload ==
  /\ lastStep = Start
  /\ \E anchorList \in PayloadLists : callBuildLinksPayload(anchorList)

SpecPayload == Init /\ [][NextPayload]_vars

----------------------------------------------------------------------------
(* Vocabulary of the properties, independent of the operators above *)

\* structural equality of two anchor lists: the same links in the same order
SameLinks(a, b) ==
  [j \in DOMAIN a |-> a[j].href] = [j \in DOMAIN b |-> b[j].href]

\* lastResponse is unset
Unset(x) == x = Null \/ x = Undefined

\* the policy condition of reconcile, on the state at call time
Policy(A) ==
  \/ Unset(linkmateResponse_)
  \/ anchorList_ # Null /\ ~SameLinks(anchorList_.v, A)

\* the link ends with the one-segment suffix
HasSuffix(link, segment) == Len(link) > 0 /\ link[Len(link)] = segment

\* positions of the anchors that go into the payload, and the k-th of them
Kept(A) == {j \in 1..Len(A) : ~HasSuffix(A[j].href, "#donotlink")}

KthKept(A, k) == CHOOSE j \in Kept(A) : Cardinality({m \in Kept(A) : m < j}) = k - 1

\* the links payload the spec describes for anchor list A
ExpectedLinks(A, flag) ==
  [k \in 1..Cardinality(Kept(A)) |->
     [raw_url |-> A[KthKept(A, k)].href,
      exclusive_match_requested |->
        flag \/ HasSuffix(A[KthKept(A, k)].href, "#locklink")]]

\* the call issued a request: one more in flight, the new one last
Issued == Len(pending') = Len(pending) + 1 /\ SubSeq(pending', 1, Len(pending)) = pending

----------------------------------------------------------------------------
(* Properties *)

\* the step is a reconcile call; its anchors are lastStep'.anchorList
Called == lastStep'.op = "run"

\* C1: a call reconcile(A) issues a new request if and only if lastResponse
\* is unset, or lastAnchorSet is set and A differs structurally from it; the
\* request is built from A; in every other case no request is issued and no
\* deferred mapping is returned.
C1_RequestPolicy ==
  [][Called =>
       LET A == lastStep'.anchorList
       IN /\ Policy(A) <=> Issued
          /\ Policy(A) =>
               /\ pending'[Len(pending')].anchorList = A
               /\ pending'[Len(pending')].body.links = ExpectedLinks(A, requestExclusiveLinks_)
               /\ lastStep'.asyncResponse = Promise
          /\ ~Policy(A) => pending' = pending /\ lastStep'.asyncResponse = Null]_vars

\* a call with a cached response and changed anchors has issued a request
C1_Witness ==
  /\ lastStep.op = "run"
  /\ lastStep.asyncResponse = Promise
  /\ Truthy(linkmateResponse_)
  /\ Len(lastStep.anchorList) > 0
  /\ pending # <<>>

\* C2: the synchronous mapping returned by reconcile(A), when lastResponse and
\* lastAnchorSet are set and A differs from lastAnchorSet, is the mapping of
\* lastResponse against A: its entries refer to the anchors of A.
C2_SyncMapsCurrentAnchors ==
  (lastStep.op = "run" /\ lastStep.syncResponse # Null) =>
     LET A == lastStep.anchorList
         M == lastStep.syncResponse.v
     IN /\ Len(M) = Len(linkmateResponse_.v) * Len(A)
        /\ \A k \in 1..Len(M) : M[k].anchor = A[((k - 1) % Len(A)) + 1]

\* C3: a transport failure rejects the deferred handle and leaves
\* lastResponse and lastAnchorSet as they were; a following reconcile call
\* with the same anchors issues a request again when the policy condition holds.
C3_TransportFailure ==
  [][/\ \A i \in 1..Len(pending) : fetchRejects(i) =>
          /\ lastStep'.op = "rejected"
          /\ lastStep'.asyncResponse = Null
          /\ lastStep'.anchorList = pending[i].anchorList
          /\ linkmateResponse_' = linkmateResponse_
          /\ anchorList_' = anchorList_
     /\ (/\ lastStep.op = "rejected"
         /\ Called
         /\ SameLinks(lastStep'.anchorList, lastStep.anchorList)
         /\ Policy(lastStep'.anchorList)) =>
           /\ Issued
           /\ pending'[Len(pending')].anchorList = lastStep'.anchorList
           /\ lastStep'.asyncResponse = Promise]_vars

\* a request failed while a response was cached for other anchors, so the
\* policy condition still holds for the anchors of the failed request
C3_Witness ==
  /\ lastStep.op = "rejected"
  /\ lastStep.smart_links = Null
  /\ Truthy(linkmateResponse_)
  /\ Policy(lastStep.anchorList)

\* a response is cached for A and no request is in flight
Cached(A) ==
  /\ Truthy(linkmateResponse_)
  /\ Truthy(anchorList_)
  /\ SameLinks(anchorList_.v, A)
  /\ pending = <<>>

\* the same of the state after the step
CachedAfter(A) ==
  /\ Truthy(linkmateResponse_')
  /\ Truthy(anchorList_')
  /\ SameLinks(anchorList_'.v, A)
  /\ pending' = <<>>

\* C4: once a request for A has completed successfully and no request is in
\* flight, reconcile calls with a list structurally equal to A issue no
\* request, return no deferred mapping and leave lastResponse and
\* lastAnchorSet (up to structural equality) unchanged, however often repeated.
C4_Idempotent ==
  [][/\ (lastStep'.op = "resolved" /\ pending' = <<>>) =>
          CachedAfter(lastStep'.anchorList)
     /\ (Called /\ Cached(lastStep'.anchorList)) =>
          /\ pending' = <<>>
          /\ lastStep'.asyncResponse = Null
          /\ linkmateResponse_' = linkmateResponse_
          /\ SameLinks(anchorList_'.v, anchorList_.v)
          /\ CachedAfter(lastStep'.anchorList)]_vars

\* a call that found its anchors cached: no request, and the remembered list
\* is now the list of the call
C4_Witness ==
  /\ lastStep.op = "run"
  /\ lastStep.asyncResponse = Null
  /\ lastStep.syncResponse = Null
  /\ Cached(lastStep.anchorList)
  /\ Len(lastStep.anchorList) > 0

\* C5: each successful arrival overwrites the state unconditionally: after it
\* lastResponse and lastAnchorSet are those of the request that arrived last,
\* also when that request was issued before one that arrived earlier.
C5_LastArrivalWins ==
  lastStep.op = "resolved" =>
     /\ linkmateResponse_ = lastStep.smart_links
     /\ anchorList_ = Arr(lastStep.anchorList)

\* the request that arrived last is older than one that arrived before it
C5_Witness ==
  /\ lastStep.op = "resolved"
  /\ lastStep.overtaken
  /\ pending = <<>>
  /\ anchorList_ = Arr(lastStep.anchorList)
  /\ Len(lastStep.anchorList) > 0

\* C6: requests in flight do not hold back a new request: a call whose policy
\* condition holds issues a request whatever is in flight, also when a
\* request for the same anchor list is in flight.
C6_NoSingleFlight ==
  [][(Called /\ Policy(lastStep'.anchorList) /\ pending # <<>>) =>
        /\ Issued
        /\ Len(pending') >= 2
        /\ UNCHANGED <<linkmateResponse_, anchorList_>>]_vars

\* two requests for the same anchor list are in flight
C6_Witness ==
  /\ Len(pending) >= 2
  /\ pending[1].anchorList = pending[2].anchorList
  /\ lastStep.op = "run"

\* C7: the synchronous mapping of reconcile(A) is non-null exactly when at
\* call time lastResponse is set, lastAnchorSet is set and A differs from
\* lastAnchorSet; it is returned while the request of the same call is
\* in flight; it is null on the first call and on every call without request.
C7_SyncExactlyWhenStale ==
  [][Called =>
       /\ lastStep'.syncResponse # Null <=>
            (/\ ~Unset(linkmateResponse_)
             /\ anchorList_ # Null
             /\ ~SameLinks(anchorList_.v, lastStep'.anchorList))
       /\ lastStep'.syncResponse # Null =>
            /\ lastStep'.asyncResponse = Promise
            /\ Issued
       /\ (linkmateResponse_ = Null /\ anchorList_ = Null) =>
            lastStep'.syncResponse = Null
       /\ ~Issued => lastStep'.syncResponse = Null]_vars

\* a synchronous mapping was returned with the request still in flight
C7_Witness ==
  /\ lastStep.op = "run"
  /\ lastStep.syncResponse # Null
  /\ lastStep.asyncResponse = Promise
  /\ pending # <<>>

\* C8: the mapping of S against A has |S| * |A| entries; entry i*|A| + j
\* (from 0) refers to anchor A[j] and smart link S[i], and its replacementUrl
\* is the redirect URL with S[i].auction_id if A[j]'s link equals S[i].url,
\* null otherwise; an empty S or A gives the empty mapping.
C8_MappingShape ==
  lastStep.op = "map" =>
     LET S == linkmateResponse_.v
         A == anchorList_.v
         M == lastStep.syncResponse.v
     IN /\ lastStep.syncResponse.tag = "array"
        /\ Len(M) = Len(S) * Len(A)
        /\ \A i \in 1..Len(S) : \A j \in 1..Len(A) :
             LET e == M[(i - 1) * Len(A) + j]
             IN /\ e.anchor = A[j]
                /\ e.replacementUrl =
                     IF A[j].href = S[i].url
                     THEN Arr(<<"https://shop-links.co/", S[i].auction_id, "/?amp=true">>)
                     ELSE Null
        /\ (S = <<>> \/ A = <<>>) => M = <<>>

\* a 2 x 2 mapping with a replaced and an unreplaced entry
C8_Witness ==
  /\ lastStep.op = "map"
  /\ Len(linkmateResponse_.v) = 2
  /\ Len(anchorList_.v) = 2
  /\ linkmateResponse_.v[1] # linkmateResponse_.v[2]
  /\ anchorList_.v[1].href # anchorList_.v[2].href
  /\ \E k \in 1..4 : lastStep.syncResponse.v[k].replacementUrl = Null
  /\ \E k \in 1..4 : lastStep.syncResponse.v[k].replacementUrl # Null

\* C9: the links payload has no entry whose raw_url ends with #donotlink and
\* exactly one entry, in anchor order, for every anchor whose link does not.
C9_DoNotLinkSkipped ==
  lastStep.op = "payload" =>
     LET A == lastStep.anchorList
         P == lastStep.payload.v
     IN /\ \A k \in 1..Len(P) : ~HasSuffix(P[k].raw_url, "#donotlink")
        /\ Len(P) = Cardinality(Kept(A))
        /\ \A k \in 1..Len(P) : P[k].raw_url = A[KthKept(A, k)].href

\* a list with a skipped anchor before a kept one whose link has #donotlink
\* in the middle
C9_Witness ==
  /\ lastStep.op = "payload"
  /\ Len(lastStep.anchorList) = 2
  /\ HasSuffix(lastStep.anchorList[1].href, "#donotlink")
  /\ lastStep.anchorList[2].href = <<"#donotlink", "#locklink">>
  /\ Len(lastStep.payload.v) = 1

\* C10: for every anchor in the links payload, exclusive_match_requested is
\* true if the exclusive-links flag is true or the link ends with #locklink,
\* and false otherwise.
C10_ExclusiveFlag ==
  lastStep.op = "payload" =>
     LET A == lastStep.anchorList
         P == lastStep.payload.v
     IN /\ Len(P) = Cardinality(Kept(A))
        /\ \A k \in 1..Len(P) :
             P[k].exclusive_match_requested =
               (requestExclusiveLinks_ \/ HasSuffix(A[KthKept(A, k)].href, "#locklink"))

\* flag off: one entry exclusive by its #locklink suffix, one not exclusive
\* although #locklink occurs inside its link
C10_Witness ==
  /\ lastStep.op = "payload"
  /\ ~requestExclusiveLinks_
  /\ Len(lastStep.payload.v) = 2
  /\ lastStep.payload.v[1].exclusive_match_requested
  /\ ~lastStep.payload.v[2].exclusive_match_requested
  /\ lastStep.payload.v[2].raw_url = <<"#locklink", "http://a.com">>

\* the mapping the spec describes for smart links S against anchors A
ExpectedMapping(S, A) ==
  [k \in 1..(Len(S) * Len(A)) |->
     LET i == ((k - 1) \div Len(A)) + 1
         j == ((k - 1) % Len(A)) + 1
     IN [anchor |-> A[j],
         replacementUrl |->
           IF A[j].href = S[i].url
           THEN Arr(<<"https://shop-links.co/", S[i].auction_id, "/?amp=true">>)
           ELSE Null]]

\* C11: when the request issued by reconcile(A) succeeds with smart links R,
\* in that one step lastResponse becomes R, lastAnchorSet becomes A and the
\* deferred handle resolves to the mapping of R against A, the anchors of
\* that call, whatever calls and arrivals came in between.
C11_AsyncMapsOwnAnchors ==
  lastStep.op = "resolved" =>
     /\ lastStep.smart_links.tag = "array"
     /\ lastStep.asyncResponse =
          Arr(ExpectedMapping(lastStep.smart_links.v, lastStep.anchorList))
     /\ linkmateResponse_ = lastStep.smart_links
     /\ anchorList_.tag = "array" /\ anchorList_.v = lastStep.anchorList

\* a mapping with a replacement resolved for a request that a later one had
\* overtaken
C11_Witness ==
  /\ lastStep.op = "resolved"
  /\ lastStep.overtaken
  /\ Len(lastStep.asyncResponse.v) > 0
  /\ \E k \in 1..Len(lastStep.asyncResponse.v) :
        lastStep.asyncResponse.v[k].replacementUrl # Null

\* two values of lastAnchorSet are structurally the same: both unset, or
\* lists of the same links
SameAnchorSet(x, y) == x.tag = y.tag /\ SameLinks(x.v, y.v)

\* the step settled a request: one less in flight
Arrived == Len(pending') = Len(pending) - 1

\* C12: lastResponse and lastAnchorSet change only in the step in which the
\* response of a request arrives from the transport; the call-time part of a
\* reconcile call leaves lastResponse unchanged and lastAnchorSet structurally
\* unchanged, and a call that issues a request leaves lastAnchorSet as it is.
C12_MutatedOnlyOnArrival ==
  [][/\ Called =>
          /\ linkmateResponse_' = linkmateResponse_
          /\ SameAnchorSet(anchorList_', anchorList_)
          /\ Issued => anchorList_' = anchorList_
     /\ (\/ linkmateResponse_' # linkmateResponse_
         \/ ~SameAnchorSet(anchorList_', anchorList_)) =>
          /\ Arrived
          /\ lastStep'.op \in {"resolved", "rejected"}
          /\ lastStep'.smart_links # Null]_vars

\* a request is in flight for anchors that differ from the remembered ones,
\* which are still those of the cached response
C12_Witness ==
  /\ lastStep.op = "run"
  /\ lastStep.asyncResponse = Promise
  /\ Truthy(linkmateResponse_)
  /\ Truthy(anchorList_)
  /\ ~SameLinks(anchorList_.v, lastStep.anchorList)
  /\ pending[Len(pending)].anchorList = lastStep.anchorList

\* C13: whenever the deferred handle of a reconcile call rejects, also for a
\* response that arrived without data[0].smart_links, lastResponse and
\* lastAnchorSet are after the rejection what they were before it.
C13_RejectionLeavesState ==
  [][(Arrived /\ lastStep'.op = "rejected") =>
        /\ linkmateResponse_' = linkmateResponse_
        /\ anchorList_' = anchorList_]_vars

\* the positions of the entries of mapping M that refer to anchor a
EntriesOf(M, a) == {k \in 1..Len(M) : M[k].anchor = a}

\* how often anchor a occurs in list A
Occurrences(A, a) == Cardinality({j \in 1..Len(A) : A[j] = a})

\* C16: if the smart links of a response have pairwise distinct urls, then in
\* a mapping computed from it each anchor has exactly |smart_links| entries
\* and at most one of them has a non-null replacementUrl (counted once per
\* occurrence of the anchor in the list).
C16_OneReplacementPerAnchor ==
  (/\ lastStep.op = "map"
   /\ \A i, j \in 1..Len(linkmateResponse_.v) :
         i # j => linkmateResponse_.v[i].url # linkmateResponse_.v[j].url) =>
     LET S == linkmateResponse_.v
         A == anchorList_.v
         M == lastStep.syncResponse.v
     IN \A j \in 1..Len(A) :
          /\ Cardinality(EntriesOf(M, A[j])) = Len(S) * Occurrences(A, A[j])
          /\ Cardinality({k \in EntriesOf(M, A[j]) : M[k].replacementUrl # Null})
               <= Occurrences(A, A[j])

\* two smart links with distinct urls against two distinct anchors, each
\* anchor with two entries of which exactly one is a replacement
C16_Witness ==
  /\ lastStep.op = "map"
  /\ Len(linkmateResponse_.v) = 2
  /\ linkmateResponse_.v[1].url # linkmateResponse_.v[2].url
  /\ Len(anchorList_.v) = 2
  /\ anchorList_.v[1] # anchorList_.v[2]
  /\ \A j \in 1..2 :
        /\ Cardinality(EntriesOf(lastStep.syncResponse.v, anchorList_.v[j])) = 2
        /\ Cardinality({k \in EntriesOf(lastStep.syncResponse.v, anchorList_.v[j]) :
                          lastStep.syncResponse.v[k].replacementUrl # Null}) = 1

\* C14: while every body received was well-formed, lastResponse is set only
\* if lastAnchorSet is set, and the pair (lastResponse, lastAnchorSet) is, up
\* to structural equality of the anchor list, the (response, anchors) pair of
\* one completed request (the one answered last), never a mix of two.
C14_CacheIsOneRequest ==
  ~completed.malformed =>
     /\ Truthy(linkmateResponse_) => Truthy(anchorList_)
     /\ Truthy(linkmateResponse_) =>
          /\ linkmateResponse_ = completed.smart_links
          /\ SameLinks(anchorList_.v, completed.anchorList)
     /\ ~Truthy(linkmateResponse_) => completed = NoneCompleted

\* the cache holds the pair of a request that was overtaken by one for
\* other anchors
C14_Witness ==
  /\ ~completed.malformed
  /\ lastStep.op = "resolved"
  /\ lastStep.overtaken
  /\ Len(linkmateResponse_.v) > 0
  /\ Len(anchorList_.v) > 0
  /\ completed.anchorList = anchorList_.v

\* the cache has settled on the fixed list
Settled ==
  /\ anchorList_ = Arr(FixedList)
  /\ Truthy(linkmateResponse_)
  /\ linkmateResponse_ = completed.smart_links
  /\ SameLinks(completed.anchorList, FixedList)
  /\ pending = <<>>
  /\ ~Policy(FixedList)

\* C15: when every request is answered with smart links and the caller keeps
\* calling reconcile with one fixed list A, the system reaches and stays in a
\* state where lastAnchorSet is A, lastResponse is the response of a request
\* built from A, nothing is in flight and reconcile(A) issues no request.
C15_SettlesOnFixedList == <>[]Settled

\* settled after a call that issued nothing
C15_Witness ==
  /\ Settled
  /\ lastStep.op = "run"
  /\ lastStep.asyncResponse = Null
  /\ lastStep.anchorList = FixedList

====
